---- MODULE Spec2Model ----
(***************************************************************************)
(* A model of photo-reviewer's streamlit_app.py: the link resolver         *)
(* (extract_file_id_from_url), the remote listing client                   *)
(* (list_files_in_folder), the cache scan (get_downloaded_files), the sync *)
(* part of main(), the scorer (evaluate_image) and analyze_folder.         *)
(*                                                                         *)
(* Strings are sequences of one-character strings; the newline character   *)
(* is written LF.  Positions are 1-based, and 0 stands for Python's -1     *)
(* ("not found").                                                          *)
(***************************************************************************)
EXTENDS Integers, Sequences, FiniteSets, TLC

VARIABLES
    \* link resolver
    url,        \* the text typed into the input field
    nsegs,      \* how many pieces the text was built from
    rpc,        \* "typing" | "resolved"
    result,     \* what extract_file_id_from_url returned
    \* sync
    kind,       \* the RemoteRef's kind: "file" | "folder"
    folder,     \* the remote folder: the names of its image-typed entries, in provider order
    firstPage,  \* how many of them the provider returns in the first page
    dir,        \* the cache directory photos/<id>: filename -> stamp of the write that made it
    clock,      \* number of writes to the cache directory so far
    pc,         \* "idle" | "loop" | "done" | "stopped"
    pass,       \* number of sync passes started
    prev,       \* the record of the previous pass
    cur,        \* the record of the current pass
    idx,        \* the loop variable i of the download loop
    \* analyze_folder
    adir,       \* os.listdir(folder): the files of the directory, in listing order
    apc,        \* "idle" | "loop" | "done" | "raised"
    ai,         \* position in the listing
    aresults,   \* the results list
    \* evaluate_image's score
    metrics,    \* the raw metrics of one image
    spc,        \* "input" | "scored"
    score       \* the score dict

vars == <<url, nsegs, rpc, result, kind, folder, firstPage, dir, clock, pc, pass,
          prev, cur, idx, adir, apc, ai, aresults, metrics, spc, score>>

resolverVars == <<url, nsegs, rpc, result>>
syncVars == <<kind, folder, firstPage, dir, clock, pc, pass, prev, cur, idx>>
analyzeVars == <<adir, apc, ai, aresults>>
scoreVars == <<metrics, spc, score>>

(***************************************************************************)
(* Bounds of the model.                                                    *)
(***************************************************************************)
MaxSegs == 4
MaxEntries == 2
MaxPasses == 2
MaxFiles == 3

(***************************************************************************)
(* Characters and the string operations the code uses.                     *)
(***************************************************************************)
LF == "LF"

LowerLetters == <<"a","b","c","d","e","f","g","h","i","j","k","l","m",
                  "n","o","p","q","r","s","t","u","v","w","x","y","z">>
UpperLetters == <<"A","B","C","D","E","F","G","H","I","J","K","L","M",
                  "N","O","P","Q","R","S","T","U","V","W","X","Y","Z">>
Digits == {"0","1","2","3","4","5","6","7","8","9"}

Range(s) == {s[i] : i \in DOMAIN s}

Min(S) == CHOOSE x \in S : \A y \in S : x <= y

\* str.lower(), one character
LowerChar(c) ==
    IF \E i \in 1..26 : UpperLetters[i] = c
    THEN LowerLetters[CHOOSE i \in 1..26 : UpperLetters[i] = c]
    ELSE c

\* str.lower()
Lower(s) == [i \in DOMAIN s |-> LowerChar(s[i])]

\* sub occurs in s at position i
IsAt(s, sub, i) ==
    /\ i >= 1
    /\ i + Len(sub) - 1 <= Len(s)
    /\ \A k \in 1..Len(sub) : s[i + k - 1] = sub[k]

\* str.find(sub, from): the first position >= from where sub occurs, 0 if none
Find(s, sub, from) ==
    LET hits == {i \in from..(Len(s) - Len(sub) + 1) : IsAt(s, sub, i)}
    IN IF hits = {} THEN 0 ELSE Min(hits)

\* sub in s
Contains(s, sub) == Find(s, sub, 1) # 0

\* str.endswith(suffix)
EndsWith(s, suf) == /\ Len(suf) <= Len(s)
                    /\ IsAt(s, suf, Len(s) - Len(suf) + 1)

\* str.endswith(tuple of suffixes)
EndsWithAny(s, sufs) == \E suf \in sufs : EndsWith(s, suf)

\* s[from:], 1-based
From(s, from) == SubSeq(s, from, Len(s))

(***************************************************************************)
(* extract_file_id_from_url                                                *)
(***************************************************************************)
\* the character class [a-zA-Z0-9_-]
IdChars == Range(LowerLetters) \cup Range(UpperLetters) \cup Digits \cup {"_", "-"}

\* {5,} of url_id_pattern
MinIdLen == 5

\* re.match(r'^[a-zA-Z0-9_-]{5,}$', s): Python's $ matches at the end of the
\* string and also just before a newline that ends the string.
MatchesUrlIdPattern(s) ==
    \E n \in MinIdLen..Len(s) :
        /\ \A i \in 1..n : s[i] \in IdChars
        /\ \/ n = Len(s)
           \/ n = Len(s) - 1 /\ s[Len(s)] = LF

FileMarker == <<"f","i","l","e","/","d","/">>
FolderMarker == <<"f","o","l","d","e","r","s","/">>
IdParam == <<"i","d","=">>

NoneRef == [type |-> "none", id |-> <<>>]

\* {'type': t, 'id': id} if id and re.match(url_id_pattern, id) else None
Validated(t, id) ==
    IF id # <<>> /\ MatchesUrlIdPattern(id) THEN [type |-> t, id |-> id] ELSE NoneRef

\* url[start:end] if end != -1 else url[start:], with end = url.find(stop, start)
UpTo(u, start, stop) ==
    LET end == Find(u, stop, start)
    IN IF end # 0 THEN SubSeq(u, start, end - 1) ELSE From(u, start)

\* url.split('id=')[1].split('&')[0]
IdParamValue(u) ==
    LET start == Find(u, IdParam, 1) + Len(IdParam)
        piece == UpTo(u, start, IdParam)
    IN UpTo(piece, 1, <<"&">>)

extract_file_id_from_url(u) ==
    IF u = <<>> THEN NoneRef
    ELSE IF Contains(u, FileMarker)
         THEN Validated("file", UpTo(u, Find(u, FileMarker, 1) + 7, <<"/">>))
    ELSE IF Contains(u, FolderMarker)
         THEN Validated("folder", UpTo(u, Find(u, FolderMarker, 1) + 8, <<"?">>))
    ELSE IF Contains(u, IdParam)
         THEN Validated("file", IdParamValue(u))
    ELSE NoneRef

(***************************************************************************)
(* The link resolver's inputs: texts put together from a few pieces.       *)
(***************************************************************************)
DrivePrefix == <<"h","t","t","p","s",":","/","/","d","r","i","v","e",".","g","o","o","g","l","e",
                 ".","c","o","m","/">>
Id5 == <<"1","2","3","4","5">>
Id3 == <<"a","-","Z">>
Id12 == <<"a","b","c","1","2","3","d","e","f","4","5","6">>
UspParam == <<"u","s","p","=">>

Segments == {DrivePrefix, FileMarker, FolderMarker, IdParam, Id5, Id3, Id12, UspParam,
             <<"/">>, <<"?">>, <<"&">>, <<".">>, <<LF>>}

ResolverInit ==
    /\ url = <<>>
    /\ nsegs = 0
    /\ rpc = "typing"
    /\ result = NoneRef

\* the user types on
Type(seg) ==
    /\ rpc = "typing"
    /\ nsegs < MaxSegs
    /\ url' = url \o seg
    /\ nsegs' = nsegs + 1
    /\ UNCHANGED <<rpc, result>>
    /\ UNCHANGED <<syncVars, analyzeVars, scoreVars>>

\* main(): result = extract_file_id_from_url(drive_input)
Resolve ==
    /\ rpc = "typing"
    /\ rpc' = "resolved"
    /\ result' = extract_file_id_from_url(url)
    /\ UNCHANGED <<url, nsegs>>
    /\ UNCHANGED <<syncVars, analyzeVars, scoreVars>>

(***************************************************************************)
(* list_files_in_folder                                                    *)
(***************************************************************************)
\* pageSize of the listing request
PageSize == 1000

\* ('.jpg', '.jpeg', '.png')
DottedExts == {<<".","j","p","g">>, <<".","j","p","e","g">>, <<".","p","n","g">>}

\* file['name'].lower().endswith(('.jpg', '.jpeg', '.png'))
HasImageExt(name) == EndsWithAny(Lower(name), DottedExts)

\* What the calls inside the try block can do:
\*   "ok"          the request is answered
\*   "no_key"      "google_api_key" not in st.secrets
\*   "http_error"  execute() raises HttpError
\*   "exception"   some call raises another Exception (transport, build, secrets)
ListEnvs == {"ok", "no_key", "http_error", "exception"}

\* the entries of the folder, with their ids: entry i is the i-th the provider holds
Entry(f, i) == [id |-> i, name |-> f[i]]
Entries(f, n) == [i \in 1..n |-> Entry(f, i)]

\* results.get('files', []): the request is made once; the answer holds the first
\* page, at most pageSize entries
FirstPageOf(f, n) == Entries(f, IF n <= PageSize THEN n ELSE PageSize)

\* the for loop over files that builds image_files
ImageFiles(files) == SelectSeq(files, LAMBDA e : HasImageExt(e.name))

\* A mutant: the except HttpError clause re-raises.
list_files_in_folder_Reraise(env, f, n) ==
    CASE env = "no_key" ->
            [status |-> "stopped", files |-> <<>>, diag |-> <<"api key not found">>]
      [] env = "http_error" ->
            [status |-> "raised", files |-> <<>>, diag |-> <<>>]
      [] env = "exception" ->
            [status |-> "returned", files |-> <<>>, diag |-> <<"error listing files">>]
      [] OTHER ->
            [status |-> "returned", files |-> ImageFiles(FirstPageOf(f, n)), diag |-> <<>>]

\* list_files_in_folder(folder_id) in environment env, the folder holding f and the
\* provider answering with its first n entries.  status: "returned" (files is the
\* return value) or "stopped" (st.stop() ended the script run: StopException is not
\* an Exception, so no except clause catches it).  diag: the st.error messages.
list_files_in_folder(env, f, n) ==
    CASE env = "no_key" ->
            [status |-> "stopped", files |-> <<>>, diag |-> <<"api key not found">>]
      [] env = "http_error" ->
            [status |-> "returned", files |-> <<>>, diag |-> <<"drive api error">>]
      [] env = "exception" ->
            [status |-> "returned", files |-> <<>>, diag |-> <<"error listing files">>]
      [] OTHER ->
            [status |-> "returned", files |-> ImageFiles(FirstPageOf(f, n)), diag |-> <<>>]

(***************************************************************************)
(* get_downloaded_files and the sync part of main()                        *)
(***************************************************************************)
\* A mutant: the scan compares the extension without lower().
get_downloaded_files_CaseSensitive(d) == {n \in DOMAIN d : EndsWithAny(n, DottedExts)}

\* get_downloaded_files(folder_path): the keys of the dict it returns.  A directory
\* that does not exist and an empty one give the same answer.
get_downloaded_files(d) == {n \in DOMAIN d : HasImageExt(n)}

\* the id of the RemoteRef being synced
RefId == Id5

\* f"image_{result['id']}.jpg"
FileTargetName(id) == <<"i","m","a","g","e","_">> \o id \o <<".","j","p","g">>

\* What fetching and saving one item can do:
\*   "ok"           bytes fetched, Image.open and image.save succeed
\*   "fetch_fail"   requests.get raises: download_file_from_google_drive returns None
\*   "decode_fail"  Image.open or image.save raises
Outcomes == {"ok", "fetch_fail", "decode_fail"}

\* image.save(file_path): the file is created or overwritten
Persist(d, name, stamp) ==
    [n \in DOMAIN d \cup {name} |-> IF n = name THEN stamp ELSE d[n]]

\* [f for f in files if f['name'] not in downloaded_files]
FilesToDownload(files, downloaded) == SelectSeq(files, LAMBDA e : e.name \notin downloaded)

NoReport == [msg |-> "none", n |-> 0]

EmptyPass == [env |-> "none", status |-> "none", listed |-> <<>>, diag |-> <<>>,
              present |-> {}, toFetch |-> <<>>, fetched |-> <<>>, errors |-> 0,
              report |-> NoReport]

NameA == <<"a",".","j","p","g">>
NameB == <<"b",".","P","N","G">>
NameC == <<"c",".","j","f","i","f">>
RemoteNames == {NameA, NameB, NameC}

SeqsUpTo(S, n) == UNION {[1..k -> S] : k \in 0..n}

EmptyDir == [n \in {} |-> 0]

SyncInit ==
    /\ kind \in {"file", "folder"}
    /\ folder \in (IF kind = "folder" THEN SeqsUpTo(RemoteNames, MaxEntries) ELSE {<<>>})
    /\ firstPage \in 0..Len(folder)
    /\ \E S \in SUBSET (IF kind = "folder" THEN {NameA, NameB} ELSE {FileTargetName(RefId)}) :
           dir = [n \in S |-> 0]
    /\ clock = 0
    /\ pc = "idle"
    /\ pass = 0
    /\ prev = EmptyPass
    /\ cur = EmptyPass
    /\ idx = 0

\* main() for a file reference (lines 207-224), the one item fetched with outcome o
SyncFile(o) ==
    LET downloaded == get_downloaded_files(dir)
        file_name == FileTargetName(RefId)
        start == [EmptyPass EXCEPT !.present = downloaded]
    IN
    /\ kind = "file"
    /\ pc \in {"idle", "done"}
    /\ pass < MaxPasses
    /\ pass' = pass + 1
    /\ prev' = cur
    /\ pc' = "done"
    /\ IF file_name \notin downloaded
       THEN /\ o \in Outcomes
            /\ cur' = [start EXCEPT
                         !.toFetch = <<[id |-> 0, name |-> file_name]>>,
                         !.fetched = <<[entry |-> [id |-> 0, name |-> file_name], outcome |-> o]>>,
                         !.errors = IF o = "ok" THEN 0 ELSE 1,
                         !.report = IF o = "ok" THEN [msg |-> "file_downloaded", n |-> 1]
                                    ELSE NoReport]
            /\ IF o = "ok"
               THEN dir' = Persist(dir, file_name, clock + 1) /\ clock' = clock + 1
               ELSE UNCHANGED <<dir, clock>>
       ELSE /\ o = "ok"
            /\ cur' = [start EXCEPT !.report = [msg |-> "file_present", n |-> 0]]
            /\ UNCHANGED <<dir, clock>>
    /\ UNCHANGED <<kind, folder, firstPage, idx>>
    /\ UNCHANGED <<resolverVars, analyzeVars, scoreVars>>

\* main() for a folder reference, up to the download loop (lines 226-238, 254-257):
\* scan, list, diff, and the report when there is nothing to download
SyncFolder(env) ==
    LET downloaded == get_downloaded_files(dir)
        r == list_files_in_folder(env, folder, firstPage)
        files == r.files
        files_to_download == FilesToDownload(files, downloaded)
        start == [EmptyPass EXCEPT !.env = env, !.status = r.status, !.listed = files,
                                   !.diag = r.diag, !.present = downloaded,
                                   !.toFetch = files_to_download]
    IN
    /\ kind = "folder"
    /\ pc \in {"idle", "done", "stopped"}
    /\ pass < MaxPasses
    /\ pass' = pass + 1
    /\ prev' = cur
    /\ IF r.status # "returned"
       THEN /\ pc' = "stopped"
            /\ cur' = [start EXCEPT !.toFetch = <<>>]
            /\ idx' = 0
       ELSE IF files = <<>>
       THEN /\ pc' = "done"
            /\ cur' = [start EXCEPT !.report = [msg |-> "no_images", n |-> 0]]
            /\ idx' = 0
       ELSE IF files_to_download = <<>>
       THEN /\ pc' = "done"
            /\ cur' = [start EXCEPT !.report = [msg |-> "all_present", n |-> Len(files)]]
            /\ idx' = 0
       ELSE /\ pc' = "loop"
            /\ cur' = start
            /\ idx' = 1
    /\ UNCHANGED <<kind, folder, firstPage, dir, clock>>
    /\ UNCHANGED <<resolverVars, analyzeVars, scoreVars>>

\* one turn of the download loop (lines 239-251), the item fetched with outcome o;
\* after the last turn, the success message (line 253)
FetchItem(o) ==
    LET file == cur.toFetch[idx]
        last == idx = Len(cur.toFetch)
    IN
    /\ pc = "loop"
    /\ idx <= Len(cur.toFetch)
    /\ IF o = "ok"
       THEN dir' = Persist(dir, file.name, clock + 1) /\ clock' = clock + 1
       ELSE UNCHANGED <<dir, clock>>
    /\ cur' = [cur EXCEPT
                 !.fetched = Append(@, [entry |-> file, outcome |-> o]),
                 !.errors = IF o = "ok" THEN @ ELSE @ + 1,
                 !.report = IF last THEN [msg |-> "downloaded", n |-> Len(cur.toFetch)] ELSE @]
    /\ idx' = idx + 1
    /\ pc' = IF last THEN "done" ELSE "loop"
    /\ UNCHANGED <<kind, folder, firstPage, pass, prev>>
    /\ UNCHANGED <<resolverVars, analyzeVars, scoreVars>>

(***************************************************************************)
(* evaluate_image.  The metrics are whole numbers here, and the score is   *)
(* kept exactly, as a numerator over ScoreDen.                             *)
(***************************************************************************)
\* the caps of the normalisation
SharpnessCap == 300
ContrastCap == 100
SaturationCap == 150

\* the weights, in tenths
SharpnessWeight == 4
ContrastWeight == 2
SaturationWeight == 2
ExposureWeight == 2

\* the denominator the score is kept over: 10 (the weights are tenths) times the least
\* common multiple of the caps, which is the largest of them
ScoreDen == 10 * SharpnessCap

\* A mutant: the normalised value is not capped.
Norm_NoCap(v, cap) == v * (ScoreDen \div (10 * cap))

\* min(v / cap, 1.0), over ScoreDen \div 10
Norm(v, cap) == (IF v <= cap THEN v ELSE cap) * (ScoreDen \div (10 * cap))

\* exposure_penalty = 1.0 if (overexposed or underexposed) else 0.0
ExposurePenalty(m) == IF m.overexposed \/ m.underexposed THEN 1 ELSE 0

\* final_score (lines 139-144), over ScoreDen
FinalScoreNum(m) ==
    SharpnessWeight * Norm(m.sharpness, SharpnessCap)
    + ContrastWeight * Norm(m.contrast, ContrastCap)
    + SaturationWeight * Norm(m.saturation, SaturationCap)
    + ExposureWeight * ((1 - ExposurePenalty(m)) * (ScoreDen \div 10))

\* round(final_score, 3), in thousandths: num / 3 is never halfway between two integers
Round3(num) == (2 * num + 3) \div 6

\* the score dict of an image that was read, from its metrics
ScoreOf(m) ==
    [sharpness |-> m.sharpness, brightness |-> m.brightness, contrast |-> m.contrast,
     saturation |-> m.saturation, overexposed |-> m.overexposed,
     underexposed |-> m.underexposed,
     final_num |-> FinalScoreNum(m), final_score |-> Round3(FinalScoreNum(m)),
     faces |-> 0]

\* evaluate_image(filepath): cv2.imread gives None for a file it cannot decode, and
\* cv2.cvtColor(None, ...) raises
evaluate_image(img) ==
    IF ~img.decodable THEN [status |-> "raised"]
    ELSE [status |-> "ok", score |-> ScoreOf(img.m)]

MaxSteps == 7

SharpnessValues == {50 * k : k \in 0..MaxSteps} \cup {10000}
ContrastValues == {25 * k : k \in 0..MaxSteps}
SaturationValues == {25 * k : k \in 0..MaxSteps}

MetricsInputs ==
    [sharpness : SharpnessValues, brightness : {128}, contrast : ContrastValues,
     saturation : SaturationValues, overexposed : BOOLEAN, underexposed : BOOLEAN]

NoScore == [status |-> "none"]

ScoreInit ==
    /\ metrics \in MetricsInputs
    /\ spc = "input"
    /\ score = NoScore

\* the metrics are scored
Evaluate ==
    /\ spc = "input"
    /\ spc' = "scored"
    /\ score' = [status |-> "ok", score |-> ScoreOf(metrics)]
    /\ UNCHANGED metrics
    /\ UNCHANGED <<resolverVars, syncVars, analyzeVars>>

(***************************************************************************)
(* analyze_folder                                                          *)
(***************************************************************************)
\* ('jpg', 'jpeg', 'png')
UndottedExts == {<<"j","p","g">>, <<"j","p","e","g">>, <<"p","n","g">>}

\* fname.lower().endswith(('jpg', 'jpeg', 'png'))
Recognized(fname) == EndsWithAny(Lower(fname), UndottedExts)

\* os.path.join('photos', result['id'])
CacheFolder == <<"p","h","o","t","o","s","/">> \o RefId

\* os.path.join(folder, fname)
PathOf(fname) == CacheFolder \o <<"/">> \o fname

NameJ == <<"d",".","j","p","e","g">>
NameT == <<"n",".","t","x","t">>
LocalNames == {NameA, NameB, NameJ, NameT}

Sharp == [sharpness |-> 350, brightness |-> 128, contrast |-> 50, saturation |-> 75,
          overexposed |-> FALSE, underexposed |-> FALSE]
Dark == [sharpness |-> 50, brightness |-> 128, contrast |-> 25, saturation |-> 0,
         overexposed |-> FALSE, underexposed |-> TRUE]
\* what a file holds: bytes cv2 cannot decode, or an image with its metrics
Corrupt == [decodable |-> FALSE]
Image(m) == [decodable |-> TRUE, m |-> m]
Contents == {Corrupt, Image(Sharp), Image(Dark)}

\* a directory listing: files with distinct names
Listings ==
    {l \in SeqsUpTo([name : LocalNames, img : Contents], MaxFiles) :
        \A i, j \in DOMAIN l : i # j => l[i].name # l[j].name}

AnalyzeInit ==
    /\ adir \in Listings
    /\ apc = "idle"
    /\ ai = 0
    /\ aresults = <<>>

\* analyze_folder(folder) is called: results = [] and the loop begins
AnalyzeCall ==
    /\ apc = "idle"
    /\ aresults' = <<>>
    /\ ai' = 1
    /\ apc' = IF adir = <<>> THEN "done" ELSE "loop"
    /\ UNCHANGED adir
    /\ UNCHANGED <<resolverVars, syncVars, scoreVars>>

\* one turn of the loop over os.listdir(folder); an exception of evaluate_image
\* leaves analyze_folder, which has no handler
AnalyzeStep ==
    LET f == adir[ai]
        e == evaluate_image(f.img)
        next == IF ai = Len(adir) THEN "done" ELSE "loop"
    IN
    /\ apc = "loop"
    /\ ai <= Len(adir)
    /\ IF ~Recognized(f.name)
       THEN /\ aresults' = aresults
            /\ apc' = next
       ELSE IF e.status = "raised"
       THEN /\ aresults' = aresults
            /\ apc' = "raised"
       ELSE /\ aresults' = Append(aresults, [score |-> e.score, filename |-> f.name,
                                             path |-> PathOf(f.name)])
            /\ apc' = next
    /\ ai' = ai + 1
    /\ UNCHANGED adir
    /\ UNCHANGED <<resolverVars, syncVars, scoreVars>>

(***************************************************************************)
(* The specifications: one per part of the program, the other parts idle.  *)
(***************************************************************************)
ResolverIdle == url = <<>> /\ nsegs = 0 /\ rpc = "off" /\ result = NoneRef

SyncIdle ==
    /\ kind = "none" /\ folder = <<>> /\ firstPage = 0 /\ dir = EmptyDir /\ clock = 0
    /\ pc = "off" /\ pass = 0 /\ prev = EmptyPass /\ cur = EmptyPass /\ idx = 0

AnalyzeIdle == adir = <<>> /\ apc = "off" /\ ai = 0 /\ aresults = <<>>

ScoreIdle == metrics = Sharp /\ spc = "off" /\ score = NoScore

\* the sync pass
Init == SyncInit /\ ResolverIdle /\ AnalyzeIdle /\ ScoreIdle
Next ==
    \/ \E o \in Outcomes : SyncFile(o)
    \/ \E env \in ListEnvs : SyncFolder(env)
    \/ \E o \in Outcomes : FetchItem(o)
Spec == Init /\ [][Next]_vars

\* the link resolver
InitResolve == ResolverInit /\ SyncIdle /\ AnalyzeIdle /\ ScoreIdle
NextResolve ==
    \/ \E seg \in Segments : Type(seg)
    \/ Resolve
SpecResolve == InitResolve /\ [][NextResolve]_vars

\* analyze_folder
InitAnalyze == AnalyzeInit /\ ResolverIdle /\ SyncIdle /\ ScoreIdle
NextAnalyze ==
    \/ AnalyzeCall
    \/ AnalyzeStep
SpecAnalyze == InitAnalyze /\ [][NextAnalyze]_vars

\* the score
InitScore == ScoreInit /\ ResolverIdle /\ SyncIdle /\ AnalyzeIdle
NextScore == Evaluate
SpecScore == InitScore /\ [][NextScore]_vars

(***************************************************************************)
(* The properties.                                                         *)
(***************************************************************************)
\* no fetch and no decode of pass p failed
NoFailure(p) == \A i \in DOMAIN p.fetched : p.fetched[i].outcome = "ok"

\* how many files pass p wrote
Persisted(p) == Cardinality({i \in DOMAIN p.fetched : p.fetched[i].outcome = "ok"})

\* a second folder pass whose listing call returned what the first one's returned
SecondPassSameListing == kind = "folder" /\ pass >= 2 /\ prev.listed = cur.listed

\* the second pass fetches nothing and reports no download
NothingFetched ==
    /\ cur.toFetch = <<>>
    /\ cur.fetched = <<>>
    /\ cur.report.msg # "downloaded"

C2_ReportCountsPersisted ==
    (kind = "folder" /\ pc = "done" /\ cur.toFetch # <<>>) =>
        /\ [i \in DOMAIN cur.fetched |-> cur.fetched[i].entry] = cur.toFetch
        /\ cur.report.msg = "downloaded"
        /\ cur.report.n = Persisted(cur)

\* C3: the cache directory is append-only: no step writes a file that is already in it.
C3_AppendOnly ==
    [][\A n \in DOMAIN dir : n \in DOMAIN dir' /\ dir'[n] = dir[n]]_vars

\* every character of s is of the identifier class and there are at least five
StrictId(s) == Len(s) >= MinIdLen /\ \A i \in DOMAIN s : s[i] \in IdChars

\* C4: an id that extract_file_id_from_url returns has only characters of
\* [a-zA-Z0-9_-] and at least five of them.
C4_ReturnedIdWellFormed ==
    (rpc = "resolved" /\ result # NoneRef) => StrictId(result.id)

\* C5: a bare identifier, one that holds no link marker and matches the identifier
\* pattern, resolves to a file reference whose id is the input itself.
C5_BareIdIsFile ==
    (/\ rpc = "resolved"
     /\ StrictId(url)
     /\ ~Contains(url, FileMarker) /\ ~Contains(url, FolderMarker) /\ ~Contains(url, IdParam))
    => result = [type |-> "file", id |-> url]

\* the text after the first 'folders/' up to the first '?' after it, or the end
FolderIdText(u) == UpTo(u, Find(u, FolderMarker, 1) + Len(FolderMarker), <<"?">>)

\* the folder-share shape: <prefix>folders/<id>, or <prefix>folders/<id>?<query>, the
\* prefix holding no link marker and <id> an identifier
FolderShape(u) ==
    /\ Contains(u, FolderMarker)
    /\ ~Contains(SubSeq(u, 1, Find(u, FolderMarker, 1) - 1), FileMarker)
    /\ StrictId(FolderIdText(u))

\* C6 as stated: whichever way the listing fails, list_files_in_folder returns an empty
\* sequence with a diagnostic and the pass goes on to its 'no images' branch.
C6_EveryFailureReturnsEmpty ==
    (kind = "folder" /\ pass >= 1 /\ cur.env \in {"no_key", "http_error", "exception"}) =>
        /\ cur.status = "returned"
        /\ cur.listed = <<>>
        /\ cur.diag # <<>>
        /\ pc = "done"
        /\ cur.report.msg = "no_images"

\* C6 as amended: on an HttpError or another Exception list_files_in_folder returns an
\* empty sequence with a diagnostic and the pass goes on to its 'no images' branch; on
\* a missing API key it reports the diagnostic and stops the script run: nothing is
\* returned, fetched or reported after it.
C6_ExceptionsReturnEmptyMissingKeyStops ==
    (kind = "folder" /\ pass >= 1) =>
        /\ cur.env \in {"http_error", "exception"} =>
              /\ cur.status = "returned"
              /\ cur.listed = <<>>
              /\ cur.diag # <<>>
              /\ pc = "done"
              /\ cur.report.msg = "no_images"
        /\ cur.env = "no_key" =>
              /\ cur.status = "stopped"
              /\ cur.diag # <<>>
              /\ pc = "stopped"
              /\ cur.fetched = <<>>
              /\ cur.report = NoReport

\* C6's case: the listing of a folder that holds images failed with an HttpError, and
\* the pass ended in its 'no images' branch.
C6_Witness ==
    /\ kind = "folder"
    /\ ImageFiles(Entries(folder, Len(folder))) # <<>>
    /\ cur.env = "http_error"
    /\ cur.diag # <<>>
    /\ cur.report.msg = "no_images"

\* C7: a listing that succeeds returns the image entries of all the pages, in the
\* provider's order.
C7_AllPagesListed ==
    (kind = "folder" /\ pass >= 1 /\ cur.env = "ok") =>
        cur.listed = ImageFiles(Entries(folder, Len(folder)))

\* the records analyze_folder owes: one per recognized file that decodes, in listing order
ExpectedRecords(l) ==
    LET good == SelectSeq(l, LAMBDA f : Recognized(f.name) /\ f.img.decodable)
    IN [i \in DOMAIN good |-> [score |-> ScoreOf(good[i].img.m), filename |-> good[i].name,
                               path |-> PathOf(good[i].name)]]

\* C8: analyze_folder returns one record for every recognized file that decodes, in
\* listing order, whether or not some recognized file does not decode.
C8_BadFileOmitted ==
    (apc \in {"done", "raised"}) => (apc = "done" /\ aresults = ExpectedRecords(adir))

\* C9: the final score lies in [0, 1], before and after rounding.
C9_ScoreInUnitInterval ==
    spc = "scored" =>
        /\ 0 <= score.score.final_num /\ score.score.final_num <= ScoreDen
        /\ 0 <= score.score.final_score /\ score.score.final_score <= 1000

\* C9's case: sharpness far above its cap, the other terms at or above theirs, no
\* exposure penalty: the score is exactly 1.
C9_Witness ==
    /\ spc = "scored"
    /\ metrics.sharpness = 10000
    /\ metrics.contrast > ContrastCap
    /\ metrics.saturation > SaturationCap
    /\ score.score.final_num = ScoreDen

\* Beside C10: a text of the folder-share shape that holds no 'file/d/' anywhere
\* resolves to the folder reference.
FolderShapeWithoutFileMarkerIsFolder ==
    (rpc = "resolved" /\ FolderShape(url) /\ ~Contains(url, FileMarker)) =>
        result = [type |-> "folder", id |-> FolderIdText(url)]

\* C10: a text of the folder-share shape resolves to a folder reference whose id is
\* the text after 'folders/' up to the first '?' or the end.
C10_FolderShapeIsFolder ==
    (rpc = "resolved" /\ FolderShape(url)) =>
        result = [type |-> "folder", id |-> FolderIdText(url)]

====
